---- MODULE Spec2Model ----
(***************************************************************************)
(* The agent orchestration core of modu-mcp-client: the conversation       *)
(* history with its trimming, the one-time setup, and the executeCommand   *)
(* loop, in its two variants:                                              *)
(*   "structured"  src/mcp-agent.ts        (OpenAI function calling)       *)
(*   "freetext"    src/unnamed/part_001    (JSON directives in the text)   *)
(* A command is a process whose steps are the stretches of code between    *)
(* two awaits; what the LLM, the tool provider and the vision model        *)
(* answer is chosen by the environment.                                    *)
(***************************************************************************)
EXTENDS Integers, Sequences, FiniteSets, TLC

\* ------------------------------------------------------------ bounds
\* Commands issued in one run.
MaxCommands == 2
\* LLM requests answered (a response or a throw) in one run of Spec.
MaxRequests == 3
\* Tool-call requests carried by one structured LLM response.
MaxToolCalls == 2
\* Iterations with a varied input (see IsPlainResponse) in one run.
MaxVaried == 1
\* clearHistory calls in one run of SpecAdmin.
MaxClears == 1
\* Pieces of caller code working on a getHistory() value in one run of SpecAdmin.
MaxCallerSteps == 1
\* Positions of the history caller code reaches through a getHistory() value.
MaxHistory == 3
\* Messages of a history trimHistory is applied to in SpecTrim.
MaxTrimLen == 4
\* trimHistory calls in a row in one run of SpecTrim.
MaxTrimCalls == 2

\* --------------------------------------------------- program constants
MAX_CONTEXT_TOKENS == 200000
ESTIMATED_CHARS_PER_TOKEN == 4
MAX_CONTEXT_CHARS == MAX_CONTEXT_TOKENS * ESTIMATED_CHARS_PER_TOKEN
\* MAX_CONTEXT_CHARS * 0.8 and MAX_CONTEXT_CHARS * 0.5 (both exact).
TRIM_THRESHOLD == (MAX_CONTEXT_CHARS * 8) \div 10
targetLength == MAX_CONTEXT_CHARS \div 2
MAX_ITERATIONS_STRUCTURED == 20
MAX_ITERATIONS_FREETEXT == 10

MAX_ITERATIONS(v) ==
    IF v = "structured" THEN MAX_ITERATIONS_STRUCTURED ELSE MAX_ITERATIONS_FREETEXT

CannedMessage == "Maximum iterations reached. Task may be incomplete."

Variants == {"structured", "freetext"}
Cmds == 1..MaxCommands

\* ------------------------------------------------------------- strings
\* Strings are tokens; StrLen gives the .length of the string a token
\* stands for.  Null stands for a content that is no string (null/undefined).
Null == "<null>"

UserCommands == {"cmd", "bigcmd"}
\* What client.callTool can resolve to (JSON.stringify'ed by the caller).
ToolResults == {"res", "bigres"}

StrLen(s) ==
    CASE s = "" -> 0
      [] s = "cmd" -> 10
      [] s = "bigcmd" -> 350000
      [] s = "hugecmd" -> 450000
      [] s = "res" -> 20
      [] s = "bigres" -> 350000
      [] s = "systemPrompt" -> 3000
      [] s = "hugePrompt" -> 650000
      [] OTHER -> 40

\* typeof x === "string" ? x.length : 0
ContentLength(content) == IF content = Null THEN 0 ELSE StrLen(content)

\* JS truthiness of a string-or-null value.
Truthy(s) == s # Null /\ s # ""

\* ------------------------------------------------------------ messages
\* role, content, tool_call_id and tool_calls are the fields of a
\* ChatCompletionMessageParam.  len is content.length where the content is
\* built from parts (the free-text tool result); kind and cmd are tags the
\* code never reads: what the message is and which command appended it.
NoId == <<0, 0, 0>>

Msg(role, content, len, id, calls, kind, c) ==
    [role |-> role, content |-> content, len |-> len, tool_call_id |-> id,
     tool_calls |-> calls, kind |-> kind, cmd |-> c]

SystemPromptMsg(c) ==
    Msg("system", "systemPrompt", StrLen("systemPrompt"), NoId, <<>>, "prompt", c)

UserMsg(c, text) == Msg("user", text, StrLen(text), NoId, <<>>, "user", c)

\* msg.content.length when the content is a string, else 0
MsgLength(msg) == IF msg.content = Null THEN 0 ELSE msg.len

RECURSIVE SumLengths(_)
SumLengths(h) == IF h = <<>> THEN 0 ELSE MsgLength(Head(h)) + SumLengths(Tail(h))

calculateHistoryLength(h) == SumLengths(h)

IsSystem(m) == m.role = "system"
IsNotSystem(m) == m.role # "system"

\* Mutant of FindSystem: the last system message instead of the first.
FindSystemLast(h) ==
    IF \E i \in DOMAIN h : IsSystem(h[i])
    THEN CHOOSE i \in DOMAIN h : IsSystem(h[i]) /\ \A j \in (i + 1)..Len(h) : ~IsSystem(h[j])
    ELSE 0

\* chatHistory.find((msg) => msg.role === "system"): index of the first, 0 if none
FindSystem(h) ==
    IF \E i \in DOMAIN h : IsSystem(h[i])
    THEN CHOOSE i \in DOMAIN h : IsSystem(h[i]) /\ \A j \in 1..(i - 1) : ~IsSystem(h[j])
    ELSE 0

\* Mutant of otherMessages: the newest message is left out.
otherMessagesWithoutNewest(h) ==
    SelectSeq(IF h = <<>> THEN h ELSE SubSeq(h, 1, Len(h) - 1), IsNotSystem)

\* chatHistory.filter((msg) => msg.role !== "system")
otherMessages(h) == SelectSeq(h, IsNotSystem)

\* The backward walk: i runs from the last message of `others` down; stops at
\* the first message that would take the accumulated length over targetLength.
RECURSIVE recentMessages(_, _, _, _)
recentMessages(others, i, acc, kept) ==
    IF i < 1 THEN kept
    ELSE IF acc + MsgLength(others[i]) > targetLength THEN kept
    ELSE recentMessages(others, i - 1, acc + MsgLength(others[i]), <<others[i]>> \o kept)

\* Mutant of trimHistory: the rebuilt history is the recent messages alone.
trimHistoryWithoutPrompt(h) ==
    IF calculateHistoryLength(h) < TRIM_THRESHOLD THEN h
    ELSE IF FindSystem(h) = 0 THEN h
    ELSE recentMessages(otherMessages(h), Len(otherMessages(h)), 0, <<>>)

trimHistory(h) ==
    IF calculateHistoryLength(h) < TRIM_THRESHOLD THEN h
    ELSE IF FindSystem(h) = 0 THEN h
    ELSE <<h[FindSystem(h)]>> \o recentMessages(otherMessages(h), Len(otherMessages(h)), 0, <<>>)

\* --------------------------------------------------------------- tools
\* The statically declared local descriptors.
customFunctions ==
    {[type |-> "function", name |-> "describe_image",
      description |-> "Returns string, the explanation of the content of an image given its URL.",
      parameters |-> "schema:imageUrl"]}

\* What client.getAllTools() can list: name, description?, inputSchema?
NavigateTool == [name |-> "navigate", description |-> "Navigate to a URL", inputSchema |-> "schema:url"]
ClickTool == [name |-> "click", description |-> Null, inputSchema |-> Null]
RemoteDescribeTool == [name |-> "describe_image", description |-> "remote", inputSchema |-> "schema:remote"]
ProviderToolLists == {{NavigateTool, ClickTool}, {NavigateTool, RemoteDescribeTool}}

convertMCPToolToOpenAIFunction(mcpTool) ==
    [type |-> "function",
     name |-> mcpTool.name,
     description |-> IF Truthy(mcpTool.description) THEN mcpTool.description
                     ELSE "No description provided",
     parameters |-> IF mcpTool.inputSchema # Null THEN mcpTool.inputSchema
                    ELSE "schema:empty"]

\* Mutant of isCustomFunction: no name is taken for a local one.
isCustomFunctionNever(functionName) == FALSE

isCustomFunction(functionName) == \E func \in customFunctions : func.name = functionName

ToolNames(tools) == {t.name : t \in tools}

\* ------------------------------------------------- what the LLM answers
\* Structured variant: a message with optional text and tool calls.  The
\* arguments of a function call are a JSON-encoded string; "{" is not JSON.
CallKinds ==
    {[type |-> "custom", name |-> Null, arguments |-> Null],
     [type |-> "function", name |-> "describe_image", arguments |-> "{}"],
     [type |-> "function", name |-> "navigate", arguments |-> "{}"],
     [type |-> "function", name |-> "nonexistent", arguments |-> "{}"],
     [type |-> "function", name |-> "navigate", arguments |-> "{"]}

CallLists == UNION {[1..n -> CallKinds] : n \in 0..MaxToolCalls}

\* kind "none": completion.choices[0]?.message is undefined.
NoMessage == [kind |-> "none", content |-> Null, tool_calls |-> <<>>]

StructuredResponses ==
    {NoMessage}
    \cup {[kind |-> "message", content |-> t, tool_calls |-> <<>>] : t \in {Null, "", "ans1", "ans2"}}
    \cup {[kind |-> "message", content |-> Null, tool_calls |-> cl] : cl \in CallLists \ {<<>>}}
    \cup {[kind |-> "message", content |-> "ans1", tool_calls |-> <<k>>] : k \in CallKinds}

\* JSON.parse of a tool call's arguments: does it return?
ArgumentsParse(arguments) == arguments = "{}"

\* Free-text variant: the assistant text, parsed as one JSON value.
\* String.prototype.trim(): of the tokens only " hello " has whitespace around it.
StringTrim(s) == IF s = " hello " THEN "hello" ELSE s

FreeTextOutputs ==
    {"hello", " hello ", "",
     "{\"done\":true,\"message\":\"bye\"}", "{\"done\":true,\"message\":\"ok\"}",
     "{\"done\":true}",
     "{\"tool\":\"navigate\",\"arguments\":{\"url\":\"a\"}}",
     "{\"tool\":\"click\",\"arguments\":{\"sel\":\"b\"}}",
     "{\"tool\":\"nonexistent\",\"arguments\":{}}",
     "{\"done\":true,\"tool\":\"click\",\"arguments\":{}}",
     "{\"note\":1}", "null", "1", "\"text\"", "[1]"}

FreeTextResponses ==
    {NoMessage}
    \cup {[kind |-> "message", content |-> t, tool_calls |-> <<>>] : t \in FreeTextOutputs \cup {Null}}

Responses(v) == IF v = "structured" THEN StructuredResponses ELSE FreeTextResponses

\* JSON.parse(llmOutput): syntax |-> FALSE when it throws; isNull when the value
\* is null (reading a property of it throws); done is `parsed.done === true`;
\* message, tool, arguments are the properties (Null when absent, as they
\* are on a number, a string and an array).
Parsed(syntax, isNull, done, message, tool, arguments) ==
    [syntax |-> syntax, isNull |-> isNull, done |-> done, message |-> message,
     tool |-> tool, arguments |-> arguments]

JSONParse(text) ==
    CASE text = "{\"done\":true,\"message\":\"bye\"}" -> Parsed(TRUE, FALSE, TRUE, "bye", Null, Null)
      [] text = "{\"done\":true,\"message\":\"ok\"}" -> Parsed(TRUE, FALSE, TRUE, "ok", Null, Null)
      [] text = "{\"done\":true}" -> Parsed(TRUE, FALSE, TRUE, Null, Null, Null)
      [] text = "{\"tool\":\"navigate\",\"arguments\":{\"url\":\"a\"}}"
           -> Parsed(TRUE, FALSE, FALSE, Null, "navigate", "{\"url\":\"a\"}")
      [] text = "{\"tool\":\"click\",\"arguments\":{\"sel\":\"b\"}}"
           -> Parsed(TRUE, FALSE, FALSE, Null, "click", "{\"sel\":\"b\"}")
      [] text = "{\"tool\":\"nonexistent\",\"arguments\":{}}"
           -> Parsed(TRUE, FALSE, FALSE, Null, "nonexistent", "{}")
      [] text = "{\"done\":true,\"tool\":\"click\",\"arguments\":{}}"
           -> Parsed(TRUE, FALSE, TRUE, Null, "click", "{}")
      [] text = "{\"note\":1}" -> Parsed(TRUE, FALSE, FALSE, Null, Null, Null)
      [] text = "null" -> Parsed(TRUE, TRUE, FALSE, Null, Null, Null)
      [] text \in {"1", "\"text\"", "[1]"} -> Parsed(TRUE, FALSE, FALSE, Null, Null, Null)
      [] OTHER -> Parsed(FALSE, FALSE, FALSE, Null, Null, Null)

\* -------------------------------------- what a tool invocation answers
\* client.callTool: resolves to a value, or rejects.  A name the provider
\* does not list never yields a normal result.
Returned(value) == [ok |-> TRUE, value |-> value]
Thrown == [ok |-> FALSE, value |-> Null]

ToolOutcomes(name, provided) ==
    IF name \in ToolNames(provided)
    THEN {Returned(r) : r \in ToolResults} \cup {Thrown}
    ELSE {Returned("errorPayload"), Thrown}

\* The vision request of describe_image: a description, no content, or a throw.
VisionOutcomes == {Returned("description"), Returned(Null), Thrown}

\* --------------------------------------------------------------- state
VARIABLES
    variant,        \* which of the two modules is running
    providerTools,  \* what the tool provider lists
    chatHistory,    \* const chatHistory: ChatMessage[]
    isInitialized,  \* let isInitialized
    openAITools,    \* let openAITools (structured variant only)
    proc,           \* per executeCommand invocation: its position and locals
    obs,            \* per invocation: what it exchanged with its environment
    connects,       \* client.connect calls that resolved
    watch           \* what the appends and trims did so far (see NoWatch)

vars == <<variant, providerTools, chatHistory, isInitialized, openAITools,
          proc, obs, connects, watch>>

\* pc: "idle" (not called yet), "connect", "getAllTools", "llm", "callTool",
\* "vision" (the awaits), "returned", "thrown".
IdleProc(c) ==
    [cmd |-> c, pc |-> "idle", userCommand |-> Null, iteration |-> 0, finalMessage |-> "",
     taskComplete |-> FALSE, llmOutput |-> "", pending |-> <<>>, result |-> Null]

\* requests: LLM requests of the loop; sent/sentTools: the messages and tools
\* of the latest one; resps: the responses received, in order; toolLog: the
\* calls made to the tool provider; outcomes: what every tool invocation
\* (provider or local) answered; results: tool-result messages appended.
IdleObs ==
    [requests |-> 0, sent |-> <<>>, sentTools |-> {}, resps |-> <<>>,
     toolLog |-> <<>>, outcomes |-> <<>>, results |-> <<>>]

\* What clearHistory found when it was last called: the commands begun, the
\* connects and tool fetches resolved, and the length of the history.
NoClear == [begun |-> 0, connects |-> 0, fetches |-> 0, length |-> 0]

\* trimPending: a user command or a tool result was appended and trimHistory
\* has not been called since.  promptFirst: after every append and every
\* trimHistory call so far the message at index 0 was the system prompt.
\* trims: the trimHistory calls that rebuilt the history; before and after:
\* the history before and after the latest of them.  fetches: the
\* client.getAllTools calls that resolved.  clears: the clearHistory calls;
\* atClear: see NoClear.  callerSteps: the pieces of caller code that worked
\* on a getHistory() value; snapshot: the array the latest of them was left
\* with.  trimLog: the history before and after each trimHistory call of
\* SpecTrim.  setupOverlap: a command passed the isInitialized check of
\* initialize while another was awaiting connect or getAllTools.
NoWatch ==
    [trimPending |-> FALSE, promptFirst |-> TRUE, trims |-> 0,
     before |-> <<>>, after |-> <<>>,
     fetches |-> 0, clears |-> 0, atClear |-> NoClear,
     callerSteps |-> 0, snapshot |-> <<>>, trimLog |-> <<>>,
     setupOverlap |-> FALSE]

Running(c) == proc[c].pc \in {"connect", "getAllTools", "llm", "callTool", "vision"}
Terminal(c) == proc[c].pc \in {"returned", "thrown"}

TypeOK ==
    /\ variant \in Variants
    /\ providerTools \in ProviderToolLists
    /\ isInitialized \in BOOLEAN
    /\ watch.trimPending \in BOOLEAN /\ watch.promptFirst \in BOOLEAN
    /\ connects \in Nat
    /\ DOMAIN proc = Cmds /\ DOMAIN obs = Cmds
    /\ \A c \in Cmds :
         proc[c].pc \in {"idle", "connect", "getAllTools", "llm", "callTool",
                         "vision", "returned", "thrown"}

Init ==
    /\ variant \in Variants
    /\ providerTools \in ProviderToolLists
    /\ chatHistory = <<>>
    /\ isInitialized = FALSE
    /\ openAITools = (IF variant = "structured" THEN customFunctions ELSE {})
    /\ proc = [c \in Cmds |-> IdleProc(c)]
    /\ obs = [c \in Cmds |-> IdleObs]
    /\ connects = 0
    /\ watch = NoWatch

\* --------------------------------------------- one command's synchronous code
\* A stretch of code between two awaits works on st = [p, o, h, w, v, tools]:
\* the command's locals and observations, chatHistory, watch, the variant
\* and openAITools.
PromptAtZero(h) == h # <<>> /\ h[1].kind = "prompt"

\* chatHistory.push(msg)
Push(st, msg) ==
    [st EXCEPT !.h = Append(@, msg),
               !.w.trimPending = IF msg.kind \in {"user", "toolresult"} THEN TRUE ELSE @,
               !.w.promptFirst = @ /\ PromptAtZero(Append(st.h, msg)),
               !.o.results = IF msg.kind = "toolresult" THEN Append(@, msg) ELSE @]

\* trimHistory()
Trim(st) ==
    LET trimmed == trimHistory(st.h)
        fired == calculateHistoryLength(st.h) >= TRIM_THRESHOLD /\ FindSystem(st.h) # 0
    IN [st EXCEPT !.h = trimmed,
                  !.w.trimPending = FALSE,
                  !.w.promptFirst = @ /\ PromptAtZero(trimmed),
                  !.w.trims = IF fired THEN @ + 1 ELSE @,
                  !.w.before = IF fired THEN st.h ELSE @,
                  !.w.after = IF fired THEN trimmed ELSE @]

\* await openai.chat.completions.create({messages: chatHistory, tools: openAITools})
Request(st) ==
    [st EXCEPT !.p.pc = "llm", !.o.requests = @ + 1, !.o.sent = st.h,
               !.o.sentTools = st.tools]

\* Mutant of AfterLoop: at the cap the canned message replaces the answer.
AfterLoopAlwaysCanned(st) ==
    LET final == IF st.p.iteration >= MAX_ITERATIONS(st.v) /\ (st.v = "structured" \/ ~st.p.taskComplete)
                 THEN CannedMessage ELSE st.p.finalMessage
    IN [st EXCEPT !.p.pc = "returned", !.p.finalMessage = final, !.p.result = final]

\* After the loop: the canned message, then `return finalMessage`.
AfterLoop(st) ==
    LET canned ==
            IF st.v = "structured"
            THEN st.p.iteration >= MAX_ITERATIONS(st.v)
            ELSE st.p.iteration >= MAX_ITERATIONS(st.v) /\ ~st.p.taskComplete
        final ==
            IF ~canned THEN st.p.finalMessage
            ELSE IF st.v = "structured"
                 THEN (IF Truthy(st.p.finalMessage) THEN st.p.finalMessage ELSE CannedMessage)
                 ELSE CannedMessage
    IN [st EXCEPT !.p.pc = "returned", !.p.finalMessage = final, !.p.result = final]

\* Mutant of LoopCondition: the cap compared with <= instead of <.
LoopConditionOffByOne(st) ==
    IF st.v = "structured"
    THEN st.p.iteration <= MAX_ITERATIONS(st.v)
    ELSE ~st.p.taskComplete /\ st.p.iteration <= MAX_ITERATIONS(st.v)

\* The loop condition.
LoopCondition(st) ==
    IF st.v = "structured"
    THEN st.p.iteration < MAX_ITERATIONS(st.v)
    ELSE ~st.p.taskComplete /\ st.p.iteration < MAX_ITERATIONS(st.v)

\* The head of the while loop: one more iteration and its request, or the exit.
LoopHead(st) ==
    IF LoopCondition(st)
    THEN Request([st EXCEPT !.p.iteration = @ + 1])
    ELSE AfterLoop(st)

\* Mutant of Throw: the catch drops the latest message before rethrowing.
ThrowDroppingLast(st) ==
    [st EXCEPT !.p.pc = "thrown",
               !.h = IF @ = <<>> THEN @ ELSE SubSeq(@, 1, Len(@) - 1)]

\* throw out of executeCommand (the catch only logs and rethrows).
Throw(st) ==
    [st EXCEPT !.p.pc = "thrown"]

\* chatHistory.push({role: "user", content: userCommand}); trimHistory(); the loop
EnterLoop(st) == LoopHead(Trim(Push(st, UserMsg(st.p.cmd, st.p.userCommand))))

\* The for loop over message.tool_calls of the structured variant, from the
\* first call not yet handled to the next await.
RECURSIVE NextToolCall(_)
NextToolCall(st) ==
    IF st.p.pending = <<>> THEN LoopHead(st)
    ELSE LET toolCall == Head(st.p.pending)
         IN IF toolCall.type # "function"
            THEN NextToolCall([st EXCEPT !.p.pending = Tail(@)])
            ELSE IF ~ArgumentsParse(toolCall.arguments) THEN Throw(st)
            ELSE IF isCustomFunction(toolCall.name) THEN [st EXCEPT !.p.pc = "vision"]
            ELSE [st EXCEPT !.p.pc = "callTool",
                            !.o.toolLog = Append(@, [name |-> toolCall.name,
                                                      arguments |-> toolCall.arguments])]

ToolMsg(c, id, content) == Msg("tool", content, StrLen(content), id, <<>>, "toolresult", c)

\* Identifiers of the tool calls of the response of iteration it of command c.
WithIds(c, it, calls) ==
    [i \in DOMAIN calls |->
        [id |-> <<c, it, i>>, type |-> calls[i].type, name |-> calls[i].name,
         arguments |-> calls[i].arguments]]

\* Structured variant, from the response to the next await.
StructuredResponse(st, resp) ==
    IF resp.kind = "none" THEN AfterLoop(st)
    ELSE LET calls == WithIds(st.p.cmd, st.p.iteration, resp.tool_calls)
             pushed == Push(st, Msg("assistant", resp.content, ContentLength(resp.content),
                                    NoId, calls, "assistant", st.p.cmd))
         IN IF Len(calls) > 0 THEN NextToolCall([pushed EXCEPT !.p.pending = calls])
            ELSE IF Truthy(resp.content)
                 THEN AfterLoop([pushed EXCEPT !.p.finalMessage = resp.content])
                 ELSE AfterLoop(pushed)

\* completion.choices[0]?.message?.content?.trim() || ""
LlmOutput(resp) ==
    IF resp.kind = "message" /\ resp.content # Null /\ Truthy(StringTrim(resp.content))
    THEN StringTrim(resp.content) ELSE ""

\* Mutant of FreeTextResponse: the catch leaves taskComplete alone.
FreeTextResponseCatchGoesOn(st, resp) ==
    LET llmOutput == LlmOutput(resp)
        pushed == Push([st EXCEPT !.p.llmOutput = llmOutput],
                       Msg("assistant", llmOutput, StrLen(llmOutput), NoId, <<>>,
                           "assistant", st.p.cmd))
        parsed == JSONParse(llmOutput)
        \* the catch around JSON.parse and everything that follows it
        caught == LoopHead([pushed EXCEPT !.p.finalMessage = llmOutput])
    IN IF ~parsed.syntax \/ parsed.isNull THEN caught
       ELSE IF parsed.done
            THEN AfterLoop([pushed EXCEPT
                              !.p.finalMessage = IF Truthy(parsed.message) THEN parsed.message ELSE @,
                              !.p.taskComplete = TRUE])
       ELSE IF Truthy(parsed.tool) /\ Truthy(parsed.arguments)
            THEN [pushed EXCEPT !.p.pc = "callTool",
                                !.o.toolLog = Append(@, [name |-> parsed.tool,
                                                          arguments |-> parsed.arguments])]
       ELSE LoopHead([pushed EXCEPT !.p.taskComplete = TRUE])

\* Free-text variant, from the response to the next await.
FreeTextResponse(st, resp) ==
    LET llmOutput == LlmOutput(resp)
        pushed == Push([st EXCEPT !.p.llmOutput = llmOutput],
                       Msg("assistant", llmOutput, StrLen(llmOutput), NoId, <<>>,
                           "assistant", st.p.cmd))
        parsed == JSONParse(llmOutput)
        \* the catch around JSON.parse and everything that follows it
        caught == LoopHead([pushed EXCEPT !.p.finalMessage = llmOutput, !.p.taskComplete = TRUE])
    IN IF ~parsed.syntax \/ parsed.isNull THEN caught
       ELSE IF parsed.done
            THEN AfterLoop([pushed EXCEPT
                              !.p.finalMessage = IF Truthy(parsed.message) THEN parsed.message ELSE @,
                              !.p.taskComplete = TRUE])
       ELSE IF Truthy(parsed.tool) /\ Truthy(parsed.arguments)
            THEN [pushed EXCEPT !.p.pc = "callTool",
                                !.o.toolLog = Append(@, [name |-> parsed.tool,
                                                          arguments |-> parsed.arguments])]
       ELSE LoopHead([pushed EXCEPT !.p.taskComplete = TRUE])

\* `Tool execution result:\nTool: ${parsed.tool}\nResult: ${resultString}`
FreeTextToolMsg(c, tool, resultString) ==
    Msg("system", "Tool execution result: " \o tool \o ": " \o resultString,
        40 + StrLen(resultString), NoId, <<>>, "toolresult", c)

\* The tool-result content of a failure: JSON.stringify({error: true, message})
ErrorContent == "{\"error\":true}"

\* From the answer of client.callTool to the next await.
StructuredToolAnswer(st, outcome) ==
    LET toolCall == Head(st.p.pending)
        content == IF outcome.ok THEN outcome.value ELSE ErrorContent
    IN NextToolCall([Push(st, ToolMsg(st.p.cmd, toolCall.id, content))
                       EXCEPT !.p.pending = Tail(@)])

\* Mutant of FreeTextToolAnswer: the result of a tool call is not appended.
FreeTextToolAnswerNoAppend(st, outcome) ==
    IF outcome.ok
    THEN LoopHead(Trim(st))
    ELSE LoopHead([st EXCEPT !.p.finalMessage = st.p.llmOutput, !.p.taskComplete = TRUE])

FreeTextToolAnswer(st, outcome) ==
    IF outcome.ok
    THEN LoopHead(Trim(Push(st, FreeTextToolMsg(st.p.cmd, JSONParse(st.p.llmOutput).tool,
                                                outcome.value))))
    ELSE LoopHead([st EXCEPT !.p.finalMessage = st.p.llmOutput, !.p.taskComplete = TRUE])

\* executeCustomFunction("describe_image", ...) from the answer of the vision
\* request to the next await of the caller.
VisionAnswer(st, outcome) ==
    LET toolCall == Head(st.p.pending)
        content == IF ~outcome.ok THEN ErrorContent
                   ELSE IF Truthy(outcome.value) THEN "{\"success\":true,\"description\":\"...\"}"
                   ELSE "{\"success\":true,\"description\":\"Could not analyze the image.\"}"
    IN NextToolCall([Push(st, ToolMsg(st.p.cmd, toolCall.id, content))
                       EXCEPT !.p.pending = Tail(@)])

\* ------------------------------------------------------------- actions
St(c) ==
    [p |-> proc[c], o |-> obs[c],
     h |-> chatHistory, w |-> watch, v |-> variant, tools |-> openAITools]

\* Mutant of Commit: iteration and finalMessage are one pair for all commands.
CommitSharedLocals(c, st) ==
    /\ proc' = [d \in Cmds |->
                  IF d = c THEN st.p
                  ELSE [proc[d] EXCEPT !.iteration = st.p.iteration,
                                       !.finalMessage = st.p.finalMessage]]
    /\ obs' = [obs EXCEPT ![c] = st.o]
    /\ chatHistory' = st.h
    /\ watch' = st.w

\* Writes back what a stretch of code of command c left.
Commit(c, st) ==
    /\ proc' = [proc EXCEPT ![c] = st.p]
    /\ obs' = [obs EXCEPT ![c] = st.o]
    /\ chatHistory' = st.h
    /\ watch' = st.w

\* Mutant of Begin: initialize() without its `if (isInitialized) return`.
BeginAlwaysSetup(c, userCommand) ==
    /\ proc[c].pc = "idle"
    /\ \A d \in Cmds : d < c => proc[d].pc # "idle"
    /\ Commit(c, [St(c) EXCEPT !.p.userCommand = userCommand, !.p.pc = "connect"])
    /\ UNCHANGED <<variant, providerTools, isInitialized, openAITools, connects>>

\* executeCommand(userCommand) is called: initialize() up to its first await,
\* or, when already initialized, on to the first LLM request.
Begin(c, userCommand) ==
    /\ proc[c].pc = "idle"
    /\ \A d \in Cmds : d < c => proc[d].pc # "idle"
    /\ LET st == [St(c) EXCEPT !.p.userCommand = userCommand]
           inSetup == \E d \in Cmds : proc[d].pc \in {"connect", "getAllTools"}
       IN IF isInitialized
          THEN Commit(c, EnterLoop(st))
          ELSE Commit(c, [st EXCEPT !.p.pc = "connect",
                                    !.w.setupOverlap = @ \/ inSetup])
    /\ UNCHANGED <<variant, providerTools, isInitialized, openAITools, connects>>

\* await client.connect(...) resolves or rejects.
ConnectReturns(c, ok) ==
    /\ proc[c].pc = "connect"
    /\ IF ok
       THEN /\ Commit(c, [St(c) EXCEPT !.p.pc = "getAllTools"])
            /\ connects' = connects + 1
       ELSE /\ Commit(c, Throw(St(c)))
            /\ UNCHANGED connects
    /\ UNCHANGED <<variant, providerTools, isInitialized, openAITools>>

\* await client.getAllTools() resolves: the rest of initialize(), then the
\* caller up to its first LLM request.
GetAllToolsReturns(c) ==
    /\ proc[c].pc = "getAllTools"
    /\ LET tools == IF variant = "structured"
                    THEN {convertMCPToolToOpenAIFunction(t) : t \in providerTools}
                    ELSE openAITools
           st == Push([St(c) EXCEPT !.tools = tools, !.w.fetches = @ + 1],
                      SystemPromptMsg(c))
       IN /\ openAITools' = tools
          /\ isInitialized' = TRUE
          /\ Commit(c, EnterLoop(st))
    /\ UNCHANGED <<variant, providerTools, connects>>

GetAllToolsThrows(c) ==
    /\ proc[c].pc = "getAllTools"
    /\ Commit(c, Throw(St(c)))
    /\ UNCHANGED <<variant, providerTools, isInitialized, openAITools, connects>>

\* The LLM request resolves with a completion.
LLMReturns(c, resp) ==
    /\ proc[c].pc = "llm"
    /\ LET st == [St(c) EXCEPT !.o.resps = Append(@, resp)]
       IN Commit(c, IF variant = "structured" THEN StructuredResponse(st, resp)
                    ELSE FreeTextResponse(st, resp))
    /\ UNCHANGED <<variant, providerTools, isInitialized, openAITools, connects>>

\* The LLM request rejects.
LLMThrows(c) ==
    /\ proc[c].pc = "llm"
    /\ Commit(c, Throw(St(c)))
    /\ UNCHANGED <<variant, providerTools, isInitialized, openAITools, connects>>

\* An outcome as obs logs it: with the iteration it answered in.
Logged(it, outcome) == [it |-> it, ok |-> outcome.ok, value |-> outcome.value]

\* Name of the tool whose provider call command c is awaiting.
AwaitedTool(c) ==
    IF variant = "structured" THEN Head(proc[c].pending).name
    ELSE JSONParse(proc[c].llmOutput).tool

\* client.callTool resolves or rejects.
ToolReturns(c, outcome) ==
    /\ proc[c].pc = "callTool"
    /\ outcome \in ToolOutcomes(AwaitedTool(c), providerTools)
    /\ LET st == [St(c) EXCEPT !.o.outcomes = Append(@, Logged(proc[c].iteration, outcome))]
       IN Commit(c, IF variant = "structured" THEN StructuredToolAnswer(st, outcome)
                    ELSE FreeTextToolAnswer(st, outcome))
    /\ UNCHANGED <<variant, providerTools, isInitialized, openAITools, connects>>

\* The vision request of describe_image resolves or rejects.
VisionReturns(c, outcome) ==
    /\ proc[c].pc = "vision"
    /\ LET st == [St(c) EXCEPT !.o.outcomes = Append(@, Logged(proc[c].iteration, outcome))]
       IN Commit(c, VisionAnswer(st, outcome))
    /\ UNCHANGED <<variant, providerTools, isInitialized, openAITools, connects>>

NoneInFlight == \A c \in Cmds : ~Running(c)

\* executeCommand calls made so far.
Begun == Cardinality({c \in Cmds : proc[c].pc # "idle"})

\* Mutant of ClearHistory: the history is emptied, isInitialized is left alone.
ClearHistoryKeepsInitialized ==
    /\ watch.clears < MaxClears
    /\ chatHistory' = <<>>
    /\ watch' = [watch EXCEPT !.clears = @ + 1,
                              !.atClear = [begun |-> Begun, connects |-> connects,
                                           fetches |-> watch.fetches,
                                           length |-> Len(chatHistory)]]
    /\ UNCHANGED <<variant, providerTools, isInitialized, openAITools, proc, obs, connects>>

\* clearHistory(): chatHistory.length = 0; isInitialized = false
ClearHistory ==
    /\ watch.clears < MaxClears
    /\ chatHistory' = <<>>
    /\ isInitialized' = FALSE
    /\ watch' = [watch EXCEPT !.clears = @ + 1,
                              !.atClear = [begun |-> Begun, connects |-> connects,
                                           fetches |-> watch.fetches,
                                           length |-> Len(chatHistory)]]
    /\ UNCHANGED <<variant, providerTools, openAITools, proc, obs, connects>>

\* getHistory(): [...chatHistory], a new array of the same message objects.
\* An element of the array is a reference: the position in h of the object
\* it refers to.
getHistory(h) == [i \in DOMAIN h |-> i]

\* A reference to an object the caller made itself.
CallerObject == 0

\* `object.content = text` through a reference
WriteContent(h, ref, text) ==
    IF ref \in DOMAIN h
    THEN [h EXCEPT ![ref].content = text, ![ref].len = StrLen(text)]
    ELSE h

\* Caller code, run to its end without an await in it:
\* const snapshot = getHistory(); snapshot.push({...})
CallerAppends ==
    /\ watch.callerSteps < MaxCallerSteps
    /\ watch' = [watch EXCEPT !.callerSteps = @ + 1,
                              !.snapshot = Append(getHistory(chatHistory), CallerObject)]
    /\ UNCHANGED <<variant, providerTools, chatHistory, isInitialized, openAITools,
                   proc, obs, connects>>

\* const snapshot = getHistory(); snapshot.pop()
CallerRemoves ==
    /\ watch.callerSteps < MaxCallerSteps
    /\ LET snapshot == getHistory(chatHistory)
       IN watch' = [watch EXCEPT !.callerSteps = @ + 1,
                                 !.snapshot = IF snapshot = <<>> THEN snapshot
                                              ELSE SubSeq(snapshot, 1, Len(snapshot) - 1)]
    /\ UNCHANGED <<variant, providerTools, chatHistory, isInitialized, openAITools,
                   proc, obs, connects>>

\* const snapshot = getHistory(); snapshot[i - 1].content = "tampered"
CallerModifies(i) ==
    /\ watch.callerSteps < MaxCallerSteps
    /\ LET snapshot == getHistory(chatHistory)
       IN /\ i \in DOMAIN snapshot
          /\ chatHistory' = WriteContent(chatHistory, snapshot[i], "tampered")
          /\ watch' = [watch EXCEPT !.callerSteps = @ + 1, !.snapshot = snapshot]
    /\ UNCHANGED <<variant, providerTools, isInitialized, openAITools, proc, obs, connects>>

AllOutcomes == {Returned(r) : r \in ToolResults \cup {"errorPayload"}} \cup {Thrown}

RECURSIVE SumRequests(_)
SumRequests(cs) ==
    IF cs = {} THEN 0
    ELSE LET c == CHOOSE x \in cs : TRUE IN obs[c].requests + SumRequests(cs \ {c})

\* LLM requests issued so far, by all commands.
Requested == SumRequests(Cmds)

\* ------------------------------------------------ bounding the environment
\* The plain way for a command to go on: the LLM asks for one call of the
\* provider's navigate tool and the call returns a short result.  Every other
\* input after which the loop goes on is a varied one, and a run holds at most
\* MaxVaried iterations with a varied input.  Inputs that end the command are
\* never counted.
PlainCalls == <<[type |-> "function", name |-> "navigate", arguments |-> "{}"]>>
PlainDirective == "{\"tool\":\"navigate\",\"arguments\":{\"url\":\"a\"}}"

IsPlainResponse(v, resp) ==
    IF v = "structured"
    THEN resp.tool_calls = <<>> \/ (resp.content = Null /\ resp.tool_calls = PlainCalls)
    ELSE \/ resp.content = PlainDirective
         \/ LET parsed == JSONParse(LlmOutput(resp))
            IN ~parsed.syntax \/ parsed.isNull \/ parsed.done
               \/ ~(Truthy(parsed.tool) /\ Truthy(parsed.arguments))

IsPlainOutcome(v, outcome) ==
    outcome.value = "res" \/ (v = "freetext" /\ ~outcome.ok)

VariedIterations(c) ==
    {it \in 1..Len(obs[c].resps) :
        \/ ~IsPlainResponse(variant, obs[c].resps[it])
        \/ \E i \in DOMAIN obs[c].outcomes :
              obs[c].outcomes[i].it = it /\ ~IsPlainOutcome(variant, obs[c].outcomes[i])}

RECURSIVE SumVaried(_)
SumVaried(cs) ==
    IF cs = {} THEN 0
    ELSE LET c == CHOOSE x \in cs : TRUE
         IN Cardinality(VariedIterations(c)) + SumVaried(cs \ {c})

WithinBudget == SumVaried(Cmds) <= MaxVaried

\* -------------------------------------------------------- specifications
\* Spec: commands run one at a time, each answered by any response and any
\* outcome, for MaxRequests LLM requests.
Next ==
    \/ \E c \in Cmds, u \in UserCommands : NoneInFlight /\ Begin(c, u)
    \/ \E c \in Cmds, ok \in BOOLEAN : ConnectReturns(c, ok)
    \/ \E c \in Cmds : GetAllToolsReturns(c)
    \/ \E c \in Cmds : GetAllToolsThrows(c)
    \/ \E c \in Cmds :
          /\ proc[c].pc = "llm" /\ Requested <= MaxRequests
          /\ \E resp \in Responses(variant) : LLMReturns(c, resp) /\ WithinBudget'
    \/ \E c \in Cmds : Requested <= MaxRequests /\ LLMThrows(c)
    \/ \E c \in Cmds :
          /\ proc[c].pc = "callTool"
          /\ \E outcome \in AllOutcomes : ToolReturns(c, outcome) /\ WithinBudget'
    \/ \E c \in Cmds, outcome \in VisionOutcomes : VisionReturns(c, outcome)

Spec == Init /\ [][Next]_vars

\* SpecCap: one command, answered until it ends: every request is answered
\* and every tool invocation returns or throws.
CapResponses(v) ==
    IF v = "freetext" THEN FreeTextResponses
    ELSE {r \in StructuredResponses : Len(r.tool_calls) <= 1}
         \cup {[kind |-> "message", content |-> Null, tool_calls |-> cl] :
                 cl \in {<<CHOOSE k \in CallKinds : k.type = "custom", PlainCalls[1]>>}}

NextCap ==
    \/ \E u \in UserCommands : Begin(1, u)
    \/ \E ok \in BOOLEAN : ConnectReturns(1, ok)
    \/ GetAllToolsReturns(1)
    \/ GetAllToolsThrows(1)
    \/ /\ proc[1].pc = "llm"
       /\ \E resp \in CapResponses(variant) : LLMReturns(1, resp) /\ WithinBudget'
    \/ LLMThrows(1)
    \/ /\ proc[1].pc = "callTool"
       /\ \E outcome \in AllOutcomes : ToolReturns(1, outcome) /\ WithinBudget'
    \/ \E outcome \in VisionOutcomes : VisionReturns(1, outcome)

SpecCap == Init /\ [][NextCap]_vars

\* SpecAdmin: commands run one at a time, for one LLM request less than in
\* Spec; between them clearHistory is called and caller code works on what
\* getHistory returns.
NextAdmin ==
    \/ \E c \in Cmds, u \in UserCommands : NoneInFlight /\ Begin(c, u)
    \/ \E c \in Cmds, ok \in BOOLEAN : ConnectReturns(c, ok)
    \/ \E c \in Cmds : GetAllToolsReturns(c)
    \/ \E c \in Cmds : GetAllToolsThrows(c)
    \/ \E c \in Cmds :
          /\ proc[c].pc = "llm" /\ Requested < MaxRequests
          /\ \E resp \in CapResponses(variant) : LLMReturns(c, resp) /\ WithinBudget'
    \/ \E c \in Cmds : Requested < MaxRequests /\ LLMThrows(c)
    \/ \E c \in Cmds :
          /\ proc[c].pc = "callTool"
          /\ \E outcome \in AllOutcomes : ToolReturns(c, outcome) /\ WithinBudget'
    \/ \E c \in Cmds, outcome \in VisionOutcomes : VisionReturns(c, outcome)
    \/ NoneInFlight /\ ClearHistory
    \/ NoneInFlight /\ CallerAppends
    \/ NoneInFlight /\ CallerRemoves
    \/ \E i \in 1..MaxHistory : NoneInFlight /\ CallerModifies(i)

SpecAdmin == Init /\ [][NextAdmin]_vars

\* SpecConc: a command may start while another is suspended on an await.
NextConc ==
    \/ \E c \in Cmds, u \in UserCommands : Begin(c, u)
    \/ \E c \in Cmds, ok \in BOOLEAN : ConnectReturns(c, ok)
    \/ \E c \in Cmds : GetAllToolsReturns(c)
    \/ \E c \in Cmds : GetAllToolsThrows(c)
    \/ \E c \in Cmds :
          /\ proc[c].pc = "llm" /\ Requested < MaxRequests
          /\ \E resp \in CapResponses(variant) : LLMReturns(c, resp) /\ WithinBudget'
    \/ \E c \in Cmds : Requested < MaxRequests /\ LLMThrows(c)
    \/ \E c \in Cmds :
          /\ proc[c].pc = "callTool"
          /\ \E outcome \in AllOutcomes : ToolReturns(c, outcome) /\ WithinBudget'
    \/ \E c \in Cmds, outcome \in VisionOutcomes : VisionReturns(c, outcome)

SpecConc == Init /\ [][NextConc]_vars

\* SpecRace: as SpecConc, and clearHistory is called while a command is
\* suspended on an LLM request or a tool invocation.
NextRace ==
    \/ NextConc
    \/ (\E c \in Cmds : proc[c].pc \in {"llm", "callTool", "vision"}) /\ ClearHistory

SpecRace == Init /\ [][NextRace]_vars

\* SpecLong: commands run one at a time, as in SpecAdmin, each with a long
\* user command: under the trim target or over it.
LongCommands == {"bigcmd", "hugecmd"}

NextLong ==
    \/ \E c \in Cmds, u \in LongCommands : NoneInFlight /\ Begin(c, u)
    \/ \E c \in Cmds, ok \in BOOLEAN : ConnectReturns(c, ok)
    \/ \E c \in Cmds : GetAllToolsReturns(c)
    \/ \E c \in Cmds : GetAllToolsThrows(c)
    \/ \E c \in Cmds :
          /\ proc[c].pc = "llm" /\ Requested < MaxRequests
          /\ \E resp \in CapResponses(variant) : LLMReturns(c, resp) /\ WithinBudget'
    \/ \E c \in Cmds : Requested < MaxRequests /\ LLMThrows(c)
    \/ \E c \in Cmds :
          /\ proc[c].pc = "callTool"
          /\ \E outcome \in AllOutcomes : ToolReturns(c, outcome) /\ WithinBudget'
    \/ \E c \in Cmds, outcome \in VisionOutcomes : VisionReturns(c, outcome)

SpecLong == Init /\ [][NextLong]_vars

\* SpecTrim: trimHistory on its own, called MaxTrimCalls times in a row on a
\* history of up to MaxTrimLen messages.  The messages: the system prompt as
\* setup seeds it, a system prompt over the threshold by itself (the
\* free-text prompt lists the provider's tools), user commands, an assistant
\* message without text, and a long tool result (of role "system" in the
\* free-text variant).  A history need not start with a prompt: clearHistory
\* may empty it under a running command.
TrimMessages(v) ==
    {SystemPromptMsg(1),
     Msg("system", "hugePrompt", StrLen("hugePrompt"), NoId, <<>>, "prompt", 1),
     UserMsg(1, "cmd"), UserMsg(1, "bigcmd"), UserMsg(1, "hugecmd"),
     Msg("assistant", Null, 0, NoId, <<>>, "assistant", 1),
     IF v = "structured" THEN ToolMsg(1, <<1, 1, 1>>, "bigres")
     ELSE FreeTextToolMsg(1, "navigate", "bigres")}

TrimHistories(v) == UNION {[1..n -> TrimMessages(v)] : n \in 0..MaxTrimLen}

InitTrim ==
    /\ variant \in Variants
    /\ providerTools = {NavigateTool, ClickTool}
    /\ chatHistory \in TrimHistories(variant)
    /\ isInitialized = TRUE
    /\ openAITools = (IF variant = "structured"
                      THEN {convertMCPToolToOpenAIFunction(t) : t \in providerTools}
                      ELSE {})
    /\ proc = [c \in Cmds |-> IdleProc(c)]
    /\ obs = [c \in Cmds |-> IdleObs]
    /\ connects = 1
    /\ watch = [NoWatch EXCEPT !.fetches = 1]

\* trimHistory()
TrimHistoryCalled ==
    /\ Len(watch.trimLog) < MaxTrimCalls
    /\ chatHistory' = trimHistory(chatHistory)
    /\ watch' = [watch EXCEPT !.trimLog = Append(@, [before |-> chatHistory,
                                                      after |-> trimHistory(chatHistory)])]
    /\ UNCHANGED <<variant, providerTools, isInitialized, openAITools, proc, obs, connects>>

NextTrim == TrimHistoryCalled

SpecTrim == InitTrim /\ [][NextTrim]_vars

\* ----------------------------------------------------------------- claims
LastResp(c) == obs[c].resps[Len(obs[c].resps)]

\* A response that asks for tools: tool calls (structured), a tool directive
\* that is no done directive (free-text).
IsToolDirective(resp) ==
    LET parsed == JSONParse(LlmOutput(resp))
    IN /\ resp.kind = "message" /\ parsed.syntax /\ ~parsed.isNull /\ ~parsed.done
       /\ Truthy(parsed.tool) /\ Truthy(parsed.arguments)

IsDoneDirective(resp) ==
    resp.kind = "message" /\ JSONParse(LlmOutput(resp)).syntax /\ JSONParse(LlmOutput(resp)).done

AsksForTools(resp) ==
    IF variant = "structured" THEN resp.kind = "message" /\ resp.tool_calls # <<>>
    ELSE IsToolDirective(resp)

FailedOutcomes(c) == {i \in DOMAIN obs[c].outcomes : ~obs[c].outcomes[i].ok}
ErrorResults(c) == {i \in DOMAIN obs[c].results : obs[c].results[i].content = ErrorContent}

\* What command c has got from its environment so far, and how far it is.
Progress(c) ==
    Len(obs[c].resps) + Len(obs[c].outcomes)
    + (CASE proc[c].pc = "idle" -> 0
         [] proc[c].pc = "connect" -> 1
         [] proc[c].pc = "getAllTools" -> 2
         [] Terminal(c) -> 4
         [] OTHER -> 3)

\* C1: one executeCommand invocation issues at most 20 (structured) or 10
\* (free-text) LLM requests and then ends: while it runs, some answer of its
\* environment lets it take a step, and every step takes it further through
\* a bounded course (so with every await answered it returns or throws).
C1_TerminatesWithinCap ==
    /\ [](\A c \in Cmds :
            /\ obs[c].requests <= MAX_ITERATIONS(variant)
            /\ Len(obs[c].resps) <= obs[c].requests
            /\ Len(obs[c].outcomes) <= MaxToolCalls * obs[c].requests
            /\ Running(c) => ENABLED <<NextCap>>_vars)
    /\ [][/\ \A c \in Cmds : Progress(c)' >= Progress(c)
          /\ \E c \in Cmds : Progress(c)' > Progress(c)]_vars

\* A structured command that went through all 20 requests, one of its tool
\* calls having thrown, and returned.
C1_Witness ==
    \E c \in Cmds :
        /\ variant = "structured" /\ proc[c].pc = "returned"
        /\ obs[c].requests = MAX_ITERATIONS_STRUCTURED
        /\ FailedOutcomes(c) # {}

\* C2: every failed tool invocation is appended as an error tool result, and
\* the command does not return in the iteration of a failed invocation unless
\* the cap is used up.
C2_ToolFailureRecovered ==
    \A c \in Cmds :
        /\ Cardinality(ErrorResults(c)) = Cardinality(FailedOutcomes(c))
        /\ (proc[c].pc = "returned"
            /\ \E i \in FailedOutcomes(c) : obs[c].outcomes[i].it = Len(obs[c].resps))
           => obs[c].requests = MAX_ITERATIONS(variant)

\* Identifiers of the tool results command c appended in iteration it, in order.
ResultIds(c, it) ==
    LET InIteration(m) == m.tool_call_id[2] = it
        appended == SelectSeq(obs[c].results, InIteration)
    IN [i \in DOMAIN appended |-> appended[i].tool_call_id]

\* C3: structured variant: no command ends with tool calls of a response left
\* unhandled, and when the next LLM request is issued the tool results appended
\* since the response are one per tool call, with the calls' identifiers, in
\* the listed order.
C3_EveryToolCallAnswered ==
    \A c \in Cmds :
        variant = "structured" =>
            /\ Terminal(c) => proc[c].pending = <<>>
            /\ (proc[c].pc = "llm" /\ obs[c].resps # <<>>)
               => ResultIds(c, Len(obs[c].resps))
                    = [i \in DOMAIN LastResp(c).tool_calls |-> <<c, Len(obs[c].resps), i>>]

\* The provider calls the directives resps[1..k] ask for.
DirectedCalls(resps, k) ==
    [i \in 1..k |-> [name |-> JSONParse(LlmOutput(resps[i])).tool,
                     arguments |-> JSONParse(LlmOutput(resps[i])).arguments]]

\* C4: free-text variant: a command that returned after k tool directives and a
\* done directive made exactly the k provider calls of the directives, in
\* order, appended one result per call, and returned the message of the done
\* directive (the empty string when it has none); and whenever an LLM request
\* is pending every call made so far has its result appended.
C4_DirectivesThenDone ==
    \A c \in Cmds :
        variant = "freetext" =>
            /\ proc[c].pc = "llm" => Len(obs[c].results) = Len(obs[c].toolLog)
            /\ (/\ proc[c].pc = "returned" /\ obs[c].resps # <<>>
                /\ IsDoneDirective(LastResp(c))
                /\ \A i \in 1..(Len(obs[c].resps) - 1) : IsToolDirective(obs[c].resps[i]))
               => LET k == Len(obs[c].resps) - 1
                      message == JSONParse(LlmOutput(LastResp(c))).message
                  IN /\ obs[c].toolLog = DirectedCalls(obs[c].resps, k)
                     /\ Len(obs[c].results) = k
                     /\ \A i \in 1..k :
                           obs[c].results[i] =
                               FreeTextToolMsg(c, obs[c].toolLog[i].name, obs[c].outcomes[i].value)
                     /\ proc[c].result = (IF Truthy(message) THEN message ELSE "")

\* Nine directives, one of them for another tool than the rest, then done.
C4_Witness ==
    \E c \in Cmds :
        /\ variant = "freetext" /\ proc[c].pc = "returned"
        /\ Len(obs[c].resps) = MAX_ITERATIONS_FREETEXT
        /\ IsDoneDirective(LastResp(c))
        /\ proc[c].result = "bye"
        /\ Len(obs[c].toolLog) = MAX_ITERATIONS_FREETEXT - 1
        /\ \E i, j \in DOMAIN obs[c].toolLog : obs[c].toolLog[i].name # obs[c].toolLog[j].name

\* C5: commands run one at a time, no reset: once setup has seeded the system
\* prompt it is the message at index 0 after every append and every
\* trimHistory call.
C5_PromptStaysFirst ==
    /\ watch.promptFirst
    /\ isInitialized => PromptAtZero(chatHistory)

\* A trim that rebuilt a free-text history holding a tool result.
C5_Witness ==
    /\ variant = "freetext" /\ watch.trims > 0
    /\ \E i \in DOMAIN watch.before : watch.before[i].kind = "toolresult"
    /\ PromptAtZero(chatHistory)

IsPrompt(m) == m.kind = "prompt"
IsNotPrompt(m) == m.kind # "prompt"

\* The longest suffix of seq whose content lengths sum to at most targetLength.
LongestRecentSuffix(seq) ==
    LET fits == {j \in 1..(Len(seq) + 1) : SumLengths(SubSeq(seq, j, Len(seq))) <= targetLength}
        first == CHOOSE j \in fits : \A k \in fits : j <= k
    IN SubSeq(seq, first, Len(seq))

\* C6: a trim that fires leaves the system prompt followed by the longest
\* most-recent suffix of all the other messages that fits the 50% target.
C6_TrimKeepsRecentSuffix ==
    watch.trims > 0 =>
        watch.after = SelectSeq(watch.before, IsPrompt)
                        \o LongestRecentSuffix(SelectSeq(watch.before, IsNotPrompt))

\* C7: no LLM request is pending on a history that grew by a user command or a
\* tool result without a trimHistory call since.
C7_TrimBeforeEveryRequest ==
    \A c \in Cmds : proc[c].pc = "llm" => ~watch.trimPending

\* C8: structured variant: the tools sent with an LLM request hold every local
\* descriptor and every descriptor discovered from the provider.
C8_DeclaredToolsComplete ==
    \A c \in Cmds :
        (variant = "structured" /\ proc[c].pc = "llm") =>
            /\ customFunctions \subseteq obs[c].sentTools
            /\ {convertMCPToolToOpenAIFunction(t) : t \in providerTools} \subseteq obs[c].sentTools

\* C9: a command that ended after as many responses as the cap allows, each of
\* them asking for tools, returned the canned message.
C9_CapYieldsCannedMessage ==
    \A c \in Cmds :
        (/\ Terminal(c) /\ Len(obs[c].resps) = MAX_ITERATIONS(variant)
         /\ \A i \in DOMAIN obs[c].resps : AsksForTools(obs[c].resps[i]))
        => proc[c].pc = "returned" /\ proc[c].result = CannedMessage

\* C10: the step in which an LLM request throws ends the command as thrown and
\* leaves chatHistory what it was when the request was issued.
C10_LLMThrowKeepsHistory ==
    [][\A c \in Cmds :
          (proc[c].pc = "llm" /\ proc'[c].pc # "llm" /\ obs'[c].resps = obs[c].resps)
          => /\ proc'[c].pc = "thrown"
             /\ chatHistory' = chatHistory
             /\ chatHistory' = obs[c].sent]_vars

\* A second request that threw, after a first one whose tool result is in
\* the history.
C10_Witness ==
    \E c \in Cmds :
        /\ proc[c].pc = "thrown" /\ obs[c].requests = 2 /\ Len(obs[c].resps) = 1
        /\ proc[c].pending = <<>>
        /\ Len(obs[c].results) = 1
        /\ chatHistory = obs[c].sent
        /\ chatHistory[Len(chatHistory)].kind = "toolresult"

\* C11: clearHistory, called with no command in flight, leaves getHistory()
\* empty and the store not initialized; the first executeCommand after it
\* goes through setup again: it issues no LLM request before client.connect
\* and client.getAllTools have resolved anew, and its first request sends the
\* system prompt at index 0 followed by its user command (and, in the
\* structured variant, the tools just fetched).
C11_ClearThenFullSetup ==
    /\ [](watch.clears > 0 =>
            \A c \in Cmds :
                (c = watch.atClear.begun + 1 /\ proc[c].pc # "idle") =>
                    \/ proc[c].pc \in {"connect", "getAllTools"}
                    \/ proc[c].pc = "thrown" /\ obs[c].requests = 0
                    \/ /\ obs[c].requests >= 1
                       /\ connects > watch.atClear.connects
                       /\ watch.fetches > watch.atClear.fetches
                       /\ (proc[c].pc = "llm" /\ obs[c].requests = 1) =>
                             /\ obs[c].sent = <<SystemPromptMsg(c), UserMsg(c, proc[c].userCommand)>>
                             /\ variant = "structured" =>
                                   obs[c].sentTools =
                                       {convertMCPToolToOpenAIFunction(t) : t \in providerTools})
    /\ [][watch'.clears > watch.clears =>
              getHistory(chatHistory') = <<>> /\ ~isInitialized']_vars

\* A command ran and left a history, clearHistory was called, and the next
\* command has connected again and sent the prompt and its own command.
C11_Witness ==
    /\ watch.clears = 1 /\ watch.atClear.length >= 3 /\ watch.atClear.connects = 1
    /\ \E c \in Cmds :
          /\ c = watch.atClear.begun + 1
          /\ proc[c].pc = "llm" /\ obs[c].requests = 1
          /\ connects = 2 /\ watch.fetches = 2
          /\ chatHistory = <<SystemPromptMsg(c), UserMsg(c, proc[c].userCommand)>>

\* C12: commands run one after another, no reset: client.getAllTools
\* resolves at most once and the store is initialized exactly when it has;
\* an initialized store holds exactly one system prompt, at index 0; once
\* initialized, no step connects, fetches, enters setup, or changes the tool
\* declarations or the system prompt; while not initialized nothing is
\* seeded (the history stays empty, the declarations as loaded), also by a
\* setup that throws, and a command that starts goes into setup.
C12_SetupOnce ==
    /\ [](/\ watch.fetches <= 1
          /\ isInitialized <=> watch.fetches = 1
          /\ isInitialized =>
                /\ Len(SelectSeq(chatHistory, IsPrompt)) = 1
                /\ IsPrompt(chatHistory[1])
                /\ connects >= 1
          /\ ~isInitialized =>
                /\ chatHistory = <<>>
                /\ openAITools = (IF variant = "structured" THEN customFunctions ELSE {}))
    /\ [][/\ isInitialized =>
                /\ connects' = connects
                /\ watch'.fetches = watch.fetches
                /\ openAITools' = openAITools
                /\ chatHistory'[1] = chatHistory[1]
                /\ \A c \in Cmds : proc'[c].pc \notin {"connect", "getAllTools"}
          /\ \A c \in Cmds :
                (proc[c].pc = "idle" /\ proc'[c].pc # "idle" /\ ~isInitialized)
                => proc'[c].pc = "connect"]_vars

\* A second command at its first request, the first one having returned:
\* still one connect, one fetch, one prompt.
C12_Witness ==
    /\ proc[1].pc = "returned" /\ proc[2].pc = "llm" /\ obs[2].requests = 1
    /\ connects = 1 /\ watch.fetches = 1
    /\ Len(SelectSeq(chatHistory, IsPrompt)) = 1
    /\ Len(chatHistory) >= 4

\* The first message of role "system" in h (h holds one).
FirstSystemMessage(h) ==
    h[CHOOSE i \in DOMAIN h : h[i].role = "system" /\ \A j \in 1..(i - 1) : h[j].role # "system"]

\* C13: a trimHistory call never leaves a history whose total content length
\* is above that of the history it was called on, nor, when the history holds
\* a system prompt, below the content length of that prompt.
C13_TrimSizeBounds ==
    \A k \in DOMAIN watch.trimLog :
        LET before == watch.trimLog[k].before
            after == watch.trimLog[k].after
        IN /\ calculateHistoryLength(after) <= calculateHistoryLength(before)
           /\ (\E i \in DOMAIN before : before[i].role = "system")
              => calculateHistoryLength(after) >= MsgLength(FirstSystemMessage(before))

\* A trim that fired on a history whose newest message is longer than the
\* target: only the prompt is left.
C13_Witness ==
    \E k \in DOMAIN watch.trimLog :
        LET before == watch.trimLog[k].before
            after == watch.trimLog[k].after
        IN /\ Len(before) = 3 /\ before[1] = SystemPromptMsg(1)
           /\ before[3] = UserMsg(1, "hugecmd")
           /\ after = <<SystemPromptMsg(1)>>

\* C14: a second trimHistory call right after a first one leaves the history
\* the first one left.
C14_TrimIdempotent ==
    Len(watch.trimLog) >= 2 => watch.trimLog[2].after = watch.trimLog[1].after

\* Two calls that both rebuilt the history: what the first one left was
\* still at the threshold.
C14_Witness ==
    /\ Len(watch.trimLog) = 2
    /\ watch.trimLog[1].after # watch.trimLog[1].before
    /\ calculateHistoryLength(watch.trimLog[1].after) >= TRIM_THRESHOLD
    /\ Len(watch.trimLog[1].after) >= 2
    /\ watch.trimLog[2].after = watch.trimLog[1].after

\* C15: structured variant: once a response without tool calls has come, the
\* command has returned, with no tool invocation and no LLM request after
\* that response; when the response has text, the text is the returned value.
C15_NoCallsEndsCommand ==
    \A c \in Cmds :
        (variant = "structured" /\ obs[c].resps # <<>> /\ LastResp(c).tool_calls = <<>>) =>
            /\ proc[c].pc = "returned"
            /\ obs[c].requests = Len(obs[c].resps)
            /\ \A i \in DOMAIN obs[c].outcomes : obs[c].outcomes[i].it < Len(obs[c].resps)
            /\ (LastResp(c).kind = "message" /\ Truthy(LastResp(c).content))
               => proc[c].result = LastResp(c).content

\* The answer comes as the twentieth response, after nineteen with tool calls.
C15_Witness ==
    \E c \in Cmds :
        /\ variant = "structured" /\ proc[c].pc = "returned"
        /\ Len(obs[c].resps) = MAX_ITERATIONS_STRUCTURED
        /\ LastResp(c).tool_calls = <<>> /\ LastResp(c).content = "ans2"
        /\ proc[c].result = "ans2"
        /\ Len(obs[c].outcomes) >= MAX_ITERATIONS_STRUCTURED - 1

\* The text of the assistant as the completion carries it ("" when it
\* carries none).
AssistantText(resp) ==
    IF resp.kind = "message" /\ resp.content # Null THEN resp.content ELSE ""

\* The command ended at the response it got last: it returned, without a
\* tool invocation in that cycle and without a further LLM request.
EndedAtLastResponse(c) ==
    /\ proc[c].pc = "returned"
    /\ obs[c].requests = Len(obs[c].resps)
    /\ \A i \in DOMAIN obs[c].outcomes : obs[c].outcomes[i].it < Len(obs[c].resps)

NotJSON(resp) == ~JSONParse(LlmOutput(resp)).syntax

\* C16 as stated: free-text variant: once the assistant text is not valid
\* JSON the command has ended at that response and the returned value is the
\* text as the completion carried it.
C16_NotJSONReturnsRawText ==
    \A c \in Cmds :
        (variant = "freetext" /\ obs[c].resps # <<>> /\ NotJSON(LastResp(c))) =>
            /\ EndedAtLastResponse(c)
            /\ proc[c].result = AssistantText(LastResp(c))

\* C16, amended: free-text variant: once the assistant text is not valid JSON
\* the command has ended at that response and the returned value is the text
\* with the whitespace around it trimmed off.
C16_NotJSONReturnsTrimmedText ==
    \A c \in Cmds :
        (variant = "freetext" /\ obs[c].resps # <<>> /\ NotJSON(LastResp(c))) =>
            /\ EndedAtLastResponse(c)
            /\ proc[c].result = StringTrim(AssistantText(LastResp(c)))

\* Text with whitespace around it comes as the tenth response, after nine
\* tool directives.
C16_Witness ==
    \E c \in Cmds :
        /\ variant = "freetext" /\ proc[c].pc = "returned"
        /\ Len(obs[c].resps) = MAX_ITERATIONS_FREETEXT
        /\ LastResp(c).content = " hello "
        /\ proc[c].result = "hello"
        /\ Len(obs[c].toolLog) = MAX_ITERATIONS_FREETEXT - 1

\* Valid JSON that is neither a done directive nor a tool directive.
NeitherShape(resp) ==
    LET parsed == JSONParse(LlmOutput(resp))
    IN parsed.syntax /\ ~parsed.done /\ ~(Truthy(parsed.tool) /\ Truthy(parsed.arguments))

\* C17: free-text variant: once the assistant text is valid JSON of neither
\* shape the command has ended at that response, and the returned value is
\* not that JSON text.
C17_OtherJSONAborts ==
    \A c \in Cmds :
        (variant = "freetext" /\ obs[c].resps # <<>> /\ NeitherShape(LastResp(c))) =>
            /\ EndedAtLastResponse(c)
            /\ proc[c].result # LlmOutput(LastResp(c))

\* Names of the local descriptors.
LocalNames == {func.name : func \in customFunctions}

IsDelegable(call) == call.type = "function" /\ call.name \notin LocalNames

\* The provider calls the tool calls of resps ask for: name and arguments of
\* every function call that has no local name, in order.
RECURSIVE Delegated(_)
Delegated(resps) ==
    IF resps = <<>> THEN <<>>
    ELSE LET calls == SelectSeq(Head(resps).tool_calls, IsDelegable)
         IN [i \in DOMAIN calls |-> [name |-> calls[i].name, arguments |-> calls[i].arguments]]
            \o Delegated(Tail(resps))

\* C18: structured variant: no call with a local name ever goes to the
\* provider; while the local function runs the call being handled has a
\* local name; while the provider is awaited it has been sent the name and
\* the arguments of the call being handled; and a command that returned has
\* sent the provider exactly the calls without a local name, in order.
C18_LocalCallsNotDelegated ==
    \A c \in Cmds :
        variant = "structured" =>
            /\ \A i \in DOMAIN obs[c].toolLog : obs[c].toolLog[i].name \notin LocalNames
            /\ proc[c].pc = "vision" => Head(proc[c].pending).name \in LocalNames
            /\ proc[c].pc = "callTool" =>
                  obs[c].toolLog[Len(obs[c].toolLog)] =
                      [name |-> Head(proc[c].pending).name,
                       arguments |-> Head(proc[c].pending).arguments]
            /\ proc[c].pc = "returned" => obs[c].toolLog = Delegated(obs[c].resps)

\* The provider lists a describe_image of its own; a response asked for
\* describe_image and navigate: only navigate went to the provider.
C18_Witness ==
    \E c \in Cmds :
        /\ variant = "structured" /\ RemoteDescribeTool \in providerTools
        /\ proc[c].pc = "returned"
        /\ Len(obs[c].resps) = 2
        /\ Len(obs[c].resps[1].tool_calls) = 2
        /\ obs[c].resps[1].tool_calls[1].name = "describe_image"
        /\ obs[c].resps[1].tool_calls[2].name = "navigate"
        /\ Len(obs[c].outcomes) = 2
        /\ obs[c].toolLog = <<[name |-> "navigate", arguments |-> "{}"]>>

\* C19: no piece of caller code that works on a getHistory() value changes
\* chatHistory or a message in it.
C19_SnapshotIsolated ==
    [][watch'.callerSteps > watch.callerSteps => chatHistory' = chatHistory]_vars

\* C20: commands that overlap: an LLM request sends the whole shared
\* chatHistory as it is when the request is issued, whichever command
\* appended the messages; and a step of one command leaves the iteration
\* counter, the final-answer text and the result of every other command
\* alone.
C20_SharedHistoryPrivateLocals ==
    [][\A c \in Cmds :
          /\ obs'[c].requests > obs[c].requests => obs'[c].sent = chatHistory'
          /\ proc'[c] # proc[c] =>
                \A d \in Cmds \ {c} :
                    /\ proc'[d].iteration = proc[d].iteration
                    /\ proc'[d].finalMessage = proc[d].finalMessage
                    /\ proc'[d].result = proc[d].result]_vars

\* Command 2 started while command 1 was awaiting a tool call; the second
\* request of command 1 sent the user message of command 2 and the response
\* to it, and the two commands are in different iterations.
C20_Witness ==
    /\ proc[1].pc = "llm" /\ obs[1].requests = 2
    /\ \E i \in DOMAIN obs[1].sent : obs[1].sent[i].cmd = 2 /\ obs[1].sent[i].kind = "user"
    /\ \E i \in DOMAIN obs[1].sent : obs[1].sent[i].cmd = 2 /\ obs[1].sent[i].kind = "assistant"
    /\ proc[2].pc = "returned" /\ proc[2].iteration = 1 /\ proc[1].iteration = 2
    /\ proc[2].result # proc[1].finalMessage

\* C21: two commands that both passed the isInitialized check before a setup
\* completed, and both got through setup: the history holds exactly one
\* system prompt, and client.connect and client.getAllTools resolved once.
C21_OverlappingSetupOnce ==
    (watch.setupOverlap /\ \A c \in Cmds : obs[c].requests >= 1) =>
        /\ Len(SelectSeq(chatHistory, IsPrompt)) = 1
        /\ connects = 1
        /\ watch.fetches = 1

\* C22: in every state, clearHistory under a suspended command and a later
\* setup included: when isInitialized is true the message at index 0 of
\* chatHistory is the system prompt.
C22_InitializedHasPromptFirst ==
    isInitialized => (chatHistory # <<>> /\ IsPrompt(chatHistory[1]))

\* C23: when the first LLM request of a command is pending, the last message
\* of the context it sent is the user message of that command.
C23_FirstRequestEndsWithCommand ==
    \A c \in Cmds :
        (proc[c].pc = "llm" /\ obs[c].requests = 1) =>
            /\ obs[c].sent # <<>>
            /\ obs[c].sent[Len(obs[c].sent)] = UserMsg(c, proc[c].userCommand)

\* Every tool-result message of h comes after an assistant message that
\* lists its tool_call_id.
ResultsHaveCalls(h) ==
    \A i \in DOMAIN h :
        h[i].role = "tool" =>
            \E j \in 1..(i - 1) :
                /\ h[j].role = "assistant"
                /\ \E k \in DOMAIN h[j].tool_calls : h[j].tool_calls[k].id = h[i].tool_call_id

\* Every tool call an assistant message of h lists is followed by a
\* tool-result message that carries its identifier.
CallsHaveResults(h) ==
    \A j \in DOMAIN h :
        h[j].role = "assistant" =>
            \A k \in DOMAIN h[j].tool_calls :
                \E i \in (j + 1)..Len(h) :
                    h[i].role = "tool" /\ h[i].tool_call_id = h[j].tool_calls[k].id

\* C24: structured variant: in the context of every LLM request the tool
\* calls and the tool results are paired.
C24_CallsAndResultsPaired ==
    \A c \in Cmds :
        (variant = "structured" /\ proc[c].pc = "llm") =>
            ResultsHaveCalls(obs[c].sent) /\ CallsHaveResults(obs[c].sent)

====
